---- MODULE Spec2Model ----
(***************************************************************************)
(* Model of monaifbs/fetal_brain_seg.py: the command-line script that      *)
(* loads a YAML configuration, checks the argument lists, and for every    *)
(* (input, output) pair prepares the output folder, calls run_inference,   *)
(* and renames the file written by the inference code to the requested     *)
(* output name.                                                            *)
(*                                                                         *)
(* Python strings that the script slices, searches or joins (file names    *)
(* and paths) are sequences of one-character strings.  Configuration file  *)
(* paths and checkpoint paths are only compared, never cut, and are TLA+   *)
(* strings.  The filesystem is a set of regular files and a set of         *)
(* directories, both holding absolute paths.                               *)
(***************************************************************************)
EXTENDS Integers, Sequences, FiniteSets, TLC

\* Longest argument list drawn for --input_names / --segment_output_names.
MaxItems == 2

-----------------------------------------------------------------------------
(* String literals of the script *)

SEP == "/"

NII == <<".", "n", "i", "i">>

NIIGZ == <<".", "n", "i", "i", ".", "g", "z">>

GZ == <<"g", "z">>

UNDERSCORE == <<"_">>

\* 'seg', the fixed out_postfix of line 83
SEG_POSTFIX == <<"s", "e", "g">>

\* os.getcwd(): the directory the script is started in
Getcwd == <<"/", "w">>

\* the literal "default" of line 68
DEFAULT_SENTINEL == "default"

\* os.path.join(dirname(monaifbs.__file__), "config", "monai_dynUnet_inference_config.yml")
DefaultConfigFile == "<monaifbs>/config/monai_dynUnet_inference_config.yml"

\* os.path.join(dirname(monaifbs.__file__), "models", "checkpoint_dynUnet_DiceXent.pt")
DefaultModelPath == "<monaifbs>/models/checkpoint_dynUnet_DiceXent.pt"

\* argparse default of --config_file
None == "None"

-----------------------------------------------------------------------------
(* Python string and os.path functions, computed as posixpath computes them *)

Min(a, b) == IF a <= b THEN a ELSE b

\* s[:-n]
DropLast(s, n) == IF Len(s) > n THEN SubSeq(s, 1, Len(s) - n) ELSE <<>>

\* sub in s
Contains(s, sub) ==
    \E k \in 1..(Len(s) - Len(sub) + 1) : SubSeq(s, k, k + Len(sub) - 1) = sub

\* s.endswith(suffix)
EndsWith(s, suffix) ==
    /\ Len(s) >= Len(suffix)
    /\ SubSeq(s, Len(s) - Len(suffix) + 1, Len(s)) = suffix

\* p.rfind('/') + 1
RFindSep(p) ==
    LET hits == {k \in 1..Len(p) : p[k] = SEP}
    IN  IF hits = {} THEN 0 ELSE CHOOSE k \in hits : \A j \in hits : j <= k

RECURSIVE RStripSep(_)
\* head.rstrip('/')
RStripSep(s) ==
    IF s # <<>> /\ s[Len(s)] = SEP THEN RStripSep(SubSeq(s, 1, Len(s) - 1)) ELSE s

\* os.path.basename(p)
Basename(p) == SubSeq(p, RFindSep(p) + 1, Len(p))

\* os.path.dirname(p)
Dirname(p) ==
    LET head == SubSeq(p, 1, RFindSep(p))
    IN  IF head # <<>> /\ (\E k \in 1..Len(head) : head[k] # SEP)
        THEN RStripSep(head)
        ELSE head

\* one step of os.path.join
Join2(a, b) ==
    IF b # <<>> /\ b[1] = SEP THEN b
    ELSE IF a = <<>> \/ a[Len(a)] = SEP THEN a \o b
    ELSE a \o <<SEP>> \o b

\* os.path.join(*[a, b, c])
Join3(a, b, c) == Join2(Join2(a, b), c)

-----------------------------------------------------------------------------
(* The filesystem as the operating system resolves paths *)

\* a relative path is resolved against the working directory
Abs(p) == IF p # <<>> /\ p[1] = SEP THEN p ELSE Getcwd \o <<SEP>> \o p

\* the directory an absolute path is an entry of
Parent(p) == SubSeq(p, 1, RFindSep(p) - 1)

\* the path and every directory above it (below the root)
Ancestors(p) ==
    {SubSeq(p, 1, k) : k \in {j \in 1..Len(p) : j = Len(p) \/ p[j + 1] = SEP}}

\* the entries of directory d when the regular files are F and the directories D
Entries(d, F, D) == {p \in F \cup D : Parent(p) = d}

-----------------------------------------------------------------------------
(* Command lines and environments the runs are drawn from *)

\* d/a.nii.gz
IMG_A == <<"d", "/", "a", ".", "n", "i", "i", ".", "g", "z">>

\* b.nii
IMG_B == <<"b", ".", "n", "i", "i">>

\* b.nii.gz
IMG_BZ == <<"b", ".", "n", "i", "i", ".", "g", "z">>

\* gzip.nii : an uncompressed volume whose name holds the letters gz
IMG_G == <<"g", "z", "i", "p", ".", "n", "i", "i">>

InputNames == {IMG_A, IMG_B, IMG_BZ, IMG_G}

\* o/m.nii.gz
SEG_M == <<"o", "/", "m", ".", "n", "i", "i", ".", "g", "z">>

\* n.nii : no directory component
SEG_N == <<"n", ".", "n", "i", "i">>

\* o/b/x.nii : lies in the directory the inference code uses for b.nii under o
SEG_X == <<"o", "/", "b", "/", "x", ".", "n", "i", "i">>

OutputNames == {SEG_M, SEG_N, SEG_X}

\* o : an output directory that may exist before the run
DIR_O == <<"/", "w", "/", "o">>

\* --config_file values: a readable file and a path with no file behind it
UserConfigFile == "user.yml"

MissingConfigFile == "missing.yml"

\* a checkpoint path a user's configuration names
CustomModelPath == "/data/my_model.pt"

\* a YAML document without inference.model_to_load
NoKey == "<absent>"

\* argument lists as argparse builds them with nargs='+': one element or more
ArgLists(S) == UNION {[1..n -> S] : n \in 1..MaxItems}

\* the configuration files on disk (path :> value of inference.model_to_load)
\* together with the --config_file argument
ConfigWorlds ==
    {[config_file |-> None, configFiles |-> (DefaultConfigFile :> DEFAULT_SENTINEL)],
     [config_file |-> None, configFiles |-> (UserConfigFile :> CustomModelPath)],
     [config_file |-> MissingConfigFile,
      configFiles |-> (DefaultConfigFile :> DEFAULT_SENTINEL)],
     [config_file |-> MissingConfigFile, configFiles |-> (UserConfigFile :> CustomModelPath)]}
    \cup
    {[config_file |-> UserConfigFile,
      configFiles |-> (DefaultConfigFile :> DEFAULT_SENTINEL) @@ (UserConfigFile :> v)] :
        v \in {DEFAULT_SENTINEL, CustomModelPath, NoKey}}

\* what one call of run_inference can do, seen from the script
InferenceOutcomes == {"written", "written_with_log", "nothing", "raised"}

\* log.txt
LOG_NAME == <<"l", "o", "g", ".", "t", "x", "t">>

-----------------------------------------------------------------------------
(* State *)

VARIABLES
    input_names,            \* args.input_names
    segment_output_names,   \* args.segment_output_names
    config_file,            \* args.config_file
    configFiles,            \* configuration files on disk
    files,                  \* regular files on disk (absolute paths)
    dirs,                   \* directories on disk (absolute paths)
    config,                 \* the configuration mapping
    pc,                     \* position of the script
    i,                      \* 1-based index of the pair the loop is at
    out_folder,             \* local out_folder of the loop body
    error,                  \* the exception that ended the run
    failedAt,               \* index of the pair it was raised at, 0 before the loop
    calls,                  \* the run_inference invocations made so far
    fsops,                  \* makedirs / rename / rmdir calls made so far
    out_filenames           \* out_filename computed for each pair finalized so far

vars == <<input_names, segment_output_names, config_file, configFiles, files, dirs,
          config, pc, i, out_folder, error, failedAt, calls, fsops, out_filenames>>

argVars == <<input_names, segment_output_names, config_file, configFiles>>

NoOutput == [out_postfix |-> <<>>, out_dir |-> <<>>]

Init ==
    /\ input_names \in ArgLists(InputNames)
    /\ segment_output_names \in ArgLists(OutputNames)
    /\ \E w \in ConfigWorlds :
        /\ config_file = w.config_file
        /\ configFiles = w.configFiles
    /\ files = {}
    /\ dirs \in {{Getcwd}, {Getcwd, DIR_O}}
    /\ config = [model_to_load |-> None, output |-> NoOutput]
    /\ pc = "config"
    /\ i = 0
    /\ out_folder = <<>>
    /\ error = "none"
    /\ failedAt = 0
    /\ calls = <<>>
    /\ fsops = <<>>
    /\ out_filenames = <<>>

\* os.path.exists(p)
Exists(p) == Abs(p) \in files \cup dirs

\* an uncaught exception ends the run
Raise(exc, at) ==
    /\ pc' = "failed"
    /\ error' = exc
    /\ failedAt' = at

\* zip(args.input_names, args.segment_output_names) stops at the shorter list
ZipLen == Min(Len(input_names), Len(segment_output_names))

\* the for statement takes the next pair, or the script ends
NextItem ==
    /\ i' = i + 1
    /\ pc' = IF i + 1 > ZipLen THEN "done" ELSE "prepare"

-----------------------------------------------------------------------------
(* Lines 56-70: locate and read the configuration, resolve the checkpoint *)

ConfigPath_fallback ==
    IF config_file = None \/ config_file \notin DOMAIN configFiles
    THEN DefaultConfigFile
    ELSE config_file

\* lines 57-60: the file the configuration is read from
ConfigPath == IF config_file = None THEN DefaultConfigFile ELSE config_file

ResolveModel_keep(v) == v

\* lines 68-70: the checkpoint the configuration ends up naming
ResolveModel(v) == IF v = DEFAULT_SENTINEL THEN DefaultModelPath ELSE v

ResolveConfig_lengthsFirst ==
    /\ pc = "config"
    /\ IF Len(input_names) # Len(segment_output_names)
       THEN Raise("AssertionError", 0) /\ config' = config
       ELSE IF ConfigPath \notin DOMAIN configFiles
       THEN Raise("FileNotFoundError", 0) /\ config' = config
       ELSE IF configFiles[ConfigPath] = NoKey
       THEN Raise("KeyError", 0) /\ config' = config
       ELSE /\ config' = [config EXCEPT
                            !.model_to_load = ResolveModel(configFiles[ConfigPath])]
            /\ pc' = "assert"
            /\ UNCHANGED <<error, failedAt>>
    /\ UNCHANGED <<argVars, files, dirs, i, out_folder, calls, fsops, out_filenames>>

\* lines 56-70
ResolveConfig ==
    /\ pc = "config"
    /\ IF ConfigPath \notin DOMAIN configFiles
       THEN Raise("FileNotFoundError", 0) /\ config' = config
       ELSE IF configFiles[ConfigPath] = NoKey
       THEN Raise("KeyError", 0) /\ config' = config
       ELSE /\ config' = [config EXCEPT
                            !.model_to_load = ResolveModel(configFiles[ConfigPath])]
            /\ pc' = "assert"
            /\ UNCHANGED <<error, failedAt>>
    /\ UNCHANGED <<argVars, files, dirs, i, out_folder, calls, fsops, out_filenames>>

-----------------------------------------------------------------------------
(* Line 72: the two lists must have the same length *)

CheckLengths_noAssert ==
    /\ pc = "assert"
    /\ i' = 1
    /\ pc' = "prepare"
    /\ UNCHANGED <<argVars, files, dirs, config, out_folder, error, failedAt, calls,
                   fsops, out_filenames>>

\* line 72, and the entry into the loop of line 75
CheckLengths ==
    /\ pc = "assert"
    /\ IF Len(input_names) = Len(segment_output_names)
       THEN /\ i' = 1
            /\ pc' = "prepare"
            /\ UNCHANGED <<error, failedAt>>
       ELSE /\ Raise("AssertionError", 0)
            /\ i' = i
    /\ UNCHANGED <<argVars, files, dirs, config, out_folder, calls, fsops, out_filenames>>

-----------------------------------------------------------------------------
(* Lines 77-83: the output folder *)

OutFolder_noCwd(seg) == Dirname(seg)

\* lines 78-80
OutFolder(seg) == IF Dirname(seg) = <<>> THEN Getcwd ELSE Dirname(seg)

\* lines 77-83
PrepareOutput ==
    /\ pc = "prepare"
    /\ LET seg == segment_output_names[i]
           folder == OutFolder(seg)
       IN  /\ out_folder' = folder
           /\ IF ~Exists(folder)
              THEN /\ dirs' = dirs \cup Ancestors(Abs(folder))
                   /\ fsops' = Append(fsops, [op |-> "makedirs", item |-> i,
                                              src |-> folder, dst |-> folder])
              ELSE UNCHANGED <<dirs, fsops>>
           /\ config' = [config EXCEPT
                           !.output = [out_postfix |-> SEG_POSTFIX, out_dir |-> folder]]
    /\ pc' = "infer"
    /\ UNCHANGED <<argVars, files, i, error, failedAt, calls, out_filenames>>

-----------------------------------------------------------------------------
(* Line 86: the call of run_inference *)

\* the extension the inference code keeps: .nii.gz or .nii
MonaiExt(name) == IF EndsWith(name, NIIGZ) THEN NIIGZ ELSE NII

\* the input's file name without that extension
MonaiBase(name) == DropLast(name, Len(MonaiExt(name)))

\* the subdirectory the inference code writes into: <out_dir>/<base>
MonaiDir(img, cfg) == Join2(cfg.output.out_dir, MonaiBase(Basename(img)))

\* the file the inference code writes: <out_dir>/<base>/<base>_<postfix><ext>
MonaiFile(img, cfg) ==
    Join2(MonaiDir(img, cfg),
          MonaiBase(Basename(img)) \o UNDERSCORE \o cfg.output.out_postfix
              \o MonaiExt(Basename(img)))

\* the regular files run_inference leaves behind
InferenceFiles(outcome, img, cfg) ==
    CASE outcome = "written" -> {Abs(MonaiFile(img, cfg))}
      [] outcome = "written_with_log" ->
            {Abs(MonaiFile(img, cfg)), Abs(Join2(MonaiDir(img, cfg), LOG_NAME))}
      [] OTHER -> {}

\* the directories run_inference creates
InferenceDirs(outcome, img, cfg) ==
    IF outcome \in {"written", "written_with_log"} THEN {Abs(MonaiDir(img, cfg))} ELSE {}

InferenceInput_seg(k) == segment_output_names[k]

\* the input_data argument of the k-th iteration
InferenceInput(k) == input_names[k]

\* line 86
RunInference ==
    /\ pc = "infer"
    /\ \E outcome \in InferenceOutcomes :
        LET img == InferenceInput(i)
        IN  /\ calls' = Append(calls, [input |-> img, config |-> config,
                                       outcome |-> outcome])
            /\ files' = files \cup InferenceFiles(outcome, img, config)
            /\ dirs' = dirs \cup InferenceDirs(outcome, img, config)
            /\ IF outcome = "raised"
               THEN Raise("InferenceError", i)
               ELSE pc' = "finalize" /\ UNCHANGED <<error, failedAt>>
    /\ UNCHANGED <<argVars, config, i, out_folder, fsops, out_filenames>>

-----------------------------------------------------------------------------
(* Lines 88-108: find the file the inference code wrote, rename it, clean up *)

\* line 91
FlagZip(img) == Contains(Basename(img), GZ)

\* lines 89-95
ImgFilename(img) ==
    IF FlagZip(img) THEN DropLast(Basename(img), 7) ELSE DropLast(Basename(img), 4)

\* lines 96-98
OutFilename(img, folder, postfix) ==
    Join3(folder, ImgFilename(img),
          ImgFilename(img) \o UNDERSCORE \o postfix
              \o (IF FlagZip(img) THEN NIIGZ ELSE NII))

MissingOutput_skip ==
    /\ NextItem
    /\ UNCHANGED <<files, dirs, fsops, error, failedAt>>

\* lines 101-103
MissingOutput ==
    /\ Raise("FileNotFoundError", i)
    /\ UNCHANGED <<files, dirs, fsops, i>>

Rmdir_ignoreErrors(d, F, ops) ==
    /\ dirs' = IF Entries(Abs(d), F, dirs) = {} THEN dirs \ {Abs(d)} ELSE dirs
    /\ fsops' = Append(ops, [op |-> "rmdir", item |-> i, src |-> d, dst |-> d])
    /\ NextItem
    /\ UNCHANGED <<error, failedAt>>

\* line 108: os.rmdir(d), the regular files being F and the calls so far ops
Rmdir(d, F, ops) ==
    IF Abs(d) \notin dirs
    THEN /\ Raise("FileNotFoundError", i)
         /\ dirs' = dirs /\ fsops' = ops /\ i' = i
    ELSE IF Entries(Abs(d), F, dirs) # {}
    THEN /\ Raise("OSError", i)
         /\ dirs' = dirs /\ fsops' = ops /\ i' = i
    ELSE /\ dirs' = dirs \ {Abs(d)}
         /\ fsops' = Append(ops, [op |-> "rmdir", item |-> i, src |-> d, dst |-> d])
         /\ NextItem
         /\ UNCHANGED <<error, failedAt>>

\* line 106: the regular files after os.rename(src, dst)
Renamed(src, dst) == (files \ {Abs(src)}) \cup {Abs(dst)}

\* lines 88-108
Finalize ==
    /\ pc = "finalize"
    /\ LET img == input_names[i]
           seg == segment_output_names[i]
           out_filename == OutFilename(img, out_folder, config.output.out_postfix)
           ops == Append(fsops, [op |-> "rename", item |-> i,
                                 src |-> out_filename, dst |-> seg])
       IN  /\ out_filenames' = Append(out_filenames, out_filename)
           /\ IF ~Exists(out_filename)
              THEN MissingOutput
              ELSE /\ files' = Renamed(out_filename, seg)
                   /\ IF Abs(seg) \in Renamed(out_filename, seg) \cup dirs
                      THEN Rmdir(Join2(out_folder, ImgFilename(img)),
                                 Renamed(out_filename, seg), ops)
                      ELSE /\ NextItem
                           /\ fsops' = ops
                           /\ UNCHANGED <<dirs, error, failedAt>>
    /\ UNCHANGED <<argVars, config, out_folder, calls>>

-----------------------------------------------------------------------------

Next ==
    \/ ResolveConfig
    \/ CheckLengths
    \/ PrepareOutput
    \/ RunInference
    \/ Finalize

Spec == Init /\ [][Next]_vars

Terminated == pc \in {"done", "failed"}

-----------------------------------------------------------------------------
(* Properties *)

SameLength == Len(input_names) = Len(segment_output_names)

\* the configuration file of the run was found and names a checkpoint
ConfigResolves ==
    LET src == IF config_file = None THEN DefaultConfigFile ELSE config_file
    IN  src \in DOMAIN configFiles /\ configFiles[src] # NoKey

\* the calls of kind op made for pair k
OpsOf(op, k) == {n \in 1..Len(fsops) : fsops[n].op = op /\ fsops[n].item = k}

\* C1: when the two lists differ in length the run fails before the loop:
\* it never reaches the loop body and run_inference has been called zero times.
C1_NoInferenceOnMismatch ==
    ~SameLength =>
        /\ calls = <<>>
        /\ pc \in {"config", "assert", "failed"}
        /\ (pc = "failed" => failedAt = 0)

C1_Witness == ~SameLength /\ pc = "failed" /\ error = "AssertionError" /\ calls = <<>>

C3_Original ==
    [][(/\ pc = "finalize"
        /\ Abs(MonaiFile(input_names[i], config)) \in files
        /\ Entries(Abs(MonaiDir(input_names[i], config)), files, dirs)
             = {Abs(MonaiFile(input_names[i], config))})
       =>
       (/\ Abs(segment_output_names[i]) \in files'
        /\ Abs(MonaiFile(input_names[i], config)) \notin files'
        /\ Abs(MonaiDir(input_names[i], config)) \notin dirs')]_vars

\* C4 as stated: for an input ending in .nii or .nii.gz the path the script
\* looks for is <out_dir>/<base>/<base>_seg<ext>, base being the file name
\* without exactly that extension and ext that extension.
C4_Original ==
    \A k \in 1..Len(out_filenames) :
        out_filenames[k] = MonaiFile(input_names[k], calls[k].config)

\* C5: an explicitly given configuration path with no file behind it ends the
\* run with FileNotFoundError before the loop; the default configuration is
\* not read instead, run_inference is not called and no directory is made.
C5_MissingConfigFails ==
    (config_file # None /\ config_file \notin DOMAIN configFiles /\ pc # "config") =>
        /\ pc = "failed"
        /\ error = "FileNotFoundError"
        /\ failedAt = 0
        /\ config.model_to_load = None
        /\ calls = <<>>
        /\ fsops = <<>>
        /\ files = {}

C5_Witness ==
    /\ config_file = MissingConfigFile
    /\ DefaultConfigFile \in DOMAIN configFiles
    /\ pc = "failed"
    /\ error = "FileNotFoundError"

\* C6: at every call of run_inference the configuration's model_to_load is
\* the bundled checkpoint path when the file said "default" and the file's
\* own value otherwise; it is the same at every call of the run.
C6_ModelPathFixed ==
    LET src == IF config_file = None THEN DefaultConfigFile ELSE config_file
    IN  \A n \in 1..Len(calls) :
            /\ src \in DOMAIN configFiles
            /\ calls[n].config.model_to_load =
                 (IF configFiles[src] = DEFAULT_SENTINEL
                  THEN DefaultModelPath
                  ELSE configFiles[src])
            /\ calls[n].config.model_to_load = calls[1].config.model_to_load

C6_Witness ==
    /\ Len(calls) = 2
    /\ config_file = UserConfigFile
    /\ configFiles[UserConfigFile] = DEFAULT_SENTINEL
    /\ calls[2].config.model_to_load = DefaultModelPath

\* C7: when the file the script looks for is absent after the call for pair
\* k, the run ends there with FileNotFoundError: nothing is renamed or
\* removed for pair k, and the calls of run_inference stop at k.
C7_MissingOutputStops ==
    [][(pc = "finalize"
        /\ ~Exists(OutFilename(input_names[i], out_folder, config.output.out_postfix)))
       =>
       (/\ pc' = "failed"
        /\ error' = "FileNotFoundError"
        /\ failedAt' = i
        /\ Len(calls') = i
        /\ UNCHANGED <<files, dirs, fsops, calls>>)]_vars

C7_Witness ==
    /\ pc = "failed"
    /\ error = "FileNotFoundError"
    /\ failedAt = 1
    /\ Len(input_names) = 2
    /\ SameLength
    /\ calls[1].outcome = "nothing"
    /\ Len(calls) = 1
    /\ OpsOf("rename", 1) = {}
    /\ OpsOf("rmdir", 1) = {}

C9_Original == (~SameLength /\ Terminated) => error = "AssertionError"

\* C9 amended: whenever the two lists differ in length the run fails before
\* the loop; the error is the assertion error exactly when the configuration
\* was found and resolved, and FileNotFoundError when the configuration file
\* is missing, the length check coming after the configuration is read.
C9_MismatchAfterConfig ==
    (~SameLength /\ Terminated) =>
        /\ pc = "failed"
        /\ failedAt = 0
        /\ (error = "AssertionError" <=> ConfigResolves)
        /\ (ConfigPath \notin DOMAIN configFiles => error = "FileNotFoundError")

C9_Witness ==
    /\ ~SameLength
    /\ pc = "failed"
    /\ error = "FileNotFoundError"
    /\ config_file = MissingConfigFile

\* C10: when the intermediate directory still has entries after the rename
\* for pair k, removing it fails and the run ends at pair k: the requested
\* output of pair k is in place and the calls of run_inference stop at k.
C10_RmdirFailureStops ==
    [][(/\ pc = "finalize"
        /\ Exists(OutFilename(input_names[i], out_folder, config.output.out_postfix))
        /\ Entries(Abs(Join2(out_folder, ImgFilename(input_names[i]))),
                   Renamed(OutFilename(input_names[i], out_folder,
                                       config.output.out_postfix),
                           segment_output_names[i]),
                   dirs) # {})
       =>
       (/\ pc' = "failed"
        /\ error' = "OSError"
        /\ failedAt' = i
        /\ Abs(segment_output_names[i]) \in files'
        /\ Abs(Join2(out_folder, ImgFilename(input_names[i]))) \in dirs'
        /\ calls' = calls
        /\ Len(calls') = i)]_vars

C10_Witness ==
    /\ pc = "failed"
    /\ error = "OSError"
    /\ failedAt = 2
    /\ calls[2].outcome = "written"
    /\ segment_output_names = <<SEG_X, SEG_M>>
    /\ Abs(SEG_X) \in files
    /\ Abs(SEG_M) \in files

====
